---------------------------- MODULE Spec2Model ----------------------------
(***************************************************************************)
(* Legend Cyber Analyzer (src/server.js): the two scan routes, the port    *)
(* scanner, the heuristic score and the paid-session set, as a state       *)
(* machine.                                                                *)
(*                                                                         *)
(* JavaScript values.  A string the code matches against a regular         *)
(* expression (target, geo.isp) is a sequence of one-character strings, so *)
(* that the regular expressions are computed, not assumed.  An object is a *)
(* function from its present keys to their values; a key the code never    *)
(* set is absent from the DOMAIN.  null is Null.  No probe result modelled *)
(* is an empty object or an empty string, so Null is not confused with     *)
(* one.                                                                    *)
(*                                                                         *)
(* An async handler is cut exactly at its awaits: one action resumes the   *)
(* handler with the outcome of the awaited probe and runs the synchronous  *)
(* code up to the next await (where the next probe is invoked) or to the   *)
(* response.                                                               *)
(***************************************************************************)
EXTENDS Integers, Sequences, FiniteSets, TLC

VARIABLES
    paidSessions,   \* server.js:136  the Set of paid checkout session ids
    SHODAN_KEY,     \* server.js:43   TRUE iff SHODAN_API_KEY is configured
    stripe,         \* server.js:47   TRUE iff STRIPE_SECRET_KEY is configured
    handlers,       \* per request slot: the handler's locals, response, calls
    scoreIn,        \* ScoreSpec: the argument handed to heuristicScore
    scoreOut,       \* ScoreSpec: its result, -1 before the call
    webhook         \* the stripe webhook's last delivery and its history

vars == <<paidSessions, SHODAN_KEY, stripe, handlers, scoreIn, scoreOut, webhook>>

---------------------------------------------------------------------------
(* Bounds *)

\* The deep scan probes COMMON_PORTS.slice(0, 20); the model probes the
\* first ScanCount ports of the list.
ScanCount == 2
\* ScanPortsSpec: the longest port list handed to scanPorts.
MaxPorts == 3

---------------------------------------------------------------------------
(* JavaScript values *)

Null == <<>>
EmptyObject == <<>>

Has(o, k) == k \in DOMAIN o

Put(o, k, v) == [f \in DOMAIN o \cup {k} |-> IF f = k THEN v ELSE o[f]]

\* A mutant of Falsy: only a missing string is falsy, "" is not.
FalsyMissingOnly(o, k) == ~Has(o, k)

\* !s for a string that may be missing: undefined and "" are falsy.
Falsy(o, k) == ~Has(o, k) \/ o[k] = <<>>

Digits == {"0", "1", "2", "3", "4", "5", "6", "7", "8", "9"}
LowerLetters == <<"a", "b", "c", "d", "e", "f", "g", "h", "i", "j", "k", "l", "m",
                  "n", "o", "p", "q", "r", "s", "t", "u", "v", "w", "x", "y", "z">>
UpperLetters == <<"A", "B", "C", "D", "E", "F", "G", "H", "I", "J", "K", "L", "M",
                  "N", "O", "P", "Q", "R", "S", "T", "U", "V", "W", "X", "Y", "Z">>
Range(s) == {s[i] : i \in DOMAIN s}
Letters == Range(LowerLetters) \cup Range(UpperLetters)

\* The i flag: a character folded to lower case.
ToLower(c) ==
    IF c \in Range(UpperLetters)
    THEN LowerLetters[CHOOSE i \in DOMAIN UpperLetters : UpperLetters[i] = c]
    ELSE c

\* /^\d+\.\d+\.\d+\.\d+$/.test(s)
IsIpPattern(s) ==
    /\ Len(s) > 0
    /\ \A i \in DOMAIN s : s[i] \in Digits \cup {"."}
    /\ Cardinality({i \in DOMAIN s : s[i] = "."}) = 3
    /\ s[1] # "." /\ s[Len(s)] # "."
    /\ \A i \in 1..(Len(s) - 1) : ~(s[i] = "." /\ s[i + 1] = ".")

\* /^[a-z0-9.-]+\.[a-z]{2,}$/i.test(s)
IsDomainPattern(s) ==
    \E d \in DOMAIN s :
        /\ s[d] = "."
        /\ d > 1
        /\ \A i \in 1..(d - 1) : s[i] \in Letters \cup Digits \cup {".", "-"}
        /\ Len(s) - d >= 2
        /\ \A i \in (d + 1)..Len(s) : s[i] \in Letters

\* /google/i.test(s)
Google == <<"g", "o", "o", "g", "l", "e">>
MatchesGoogle(s) ==
    \E k \in 0..(Len(s) - Len(Google)) :
        \A j \in DOMAIN Google : ToLower(s[k + j]) = Google[j]

Max(a, b) == IF a >= b THEN a ELSE b
Min(a, b) == IF a <= b THEN a ELSE b

---------------------------------------------------------------------------
(* heuristicScore, server.js:124-130 *)

\* A mutant of heuristicScore: a missing check counts as a failed one
\* (!out.checks?.https in place of === false).
heuristicScoreFalsy(out) ==
    LET httpsBad == ~(Has(out, "checks") /\ Has(out.checks, "https") /\ out.checks.https)
        rdapBad == ~(Has(out, "checks") /\ Has(out.checks, "rdap") /\ out.checks.rdap)
        ispMatch == /\ Has(out, "geo")
                    /\ Has(out.geo, "isp")
                    /\ out.geo.isp # <<>>
                    /\ MatchesGoogle(out.geo.isp)
        s == 50 + (IF httpsBad THEN 15 ELSE 0)
                + (IF rdapBad THEN 10 ELSE 0)
                - (IF ispMatch THEN 8 ELSE 0)
    IN  Max(0, Min(100, s))

heuristicScore(out) ==
    LET httpsFailed == Has(out, "checks") /\ Has(out.checks, "https")
                          /\ out.checks.https = FALSE
        rdapFailed == Has(out, "checks") /\ Has(out.checks, "rdap")
                          /\ out.checks.rdap = FALSE
        ispMatch == /\ Has(out, "geo")
                    /\ Has(out.geo, "isp")
                    /\ out.geo.isp # <<>>
                    /\ MatchesGoogle(out.geo.isp)
        s == 50 + (IF httpsFailed THEN 15 ELSE 0)
                + (IF rdapFailed THEN 10 ELSE 0)
                - (IF ispMatch THEN 8 ELSE 0)
    IN  Max(0, Min(100, s))

---------------------------------------------------------------------------
(* Inputs *)

\* "93.184.216.34", "example.com", "not a domain!!"
IpTarget == <<"9", "3", ".", "1", "8", "4", ".", "2", "1", "6", ".", "3", "4">>
DomainTarget == <<"e", "x", "a", "m", "p", "l", "e", ".", "c", "o", "m">>
JunkTarget == <<"n", "o", "t", " ", "a", " ", "d", "o", "m", "a", "i", "n", "!", "!">>
\* the address a successful DNS lookup of DomainTarget returns
ResolvedAddress == <<"9", "3", ".", "1", "8", "4", ".", "2", "1", "6", ".", "3", "5">>

\* req.body.target: "" and the three strings above (or no target at all)
Targets == {<<>>, IpTarget, DomainTarget, JunkTarget}
\* req.body.type of /api/scan
Types == {"", "ip", "domain", "username"}
\* checkout session ids; req.body.session_id may also be ""
SessionIds == {"cs_1", "cs_2"}

WithOptional(objs, k, vals) == objs \cup {Put(o, k, v) : o \in objs, v \in vals}

ScanRequests ==
    WithOptional(WithOptional({[route |-> "scan"]}, "target", Targets), "type", Types)

DeepRequests ==
    WithOptional(WithOptional({[route |-> "deepscan"]}, "target", Targets),
                 "session_id", SessionIds \cup {""})

\* geo.isp values: "Google LLC", "GOOGLE-CLOUD", "Comcast"
IspGoogle == <<"G", "o", "o", "g", "l", "e", " ", "L", "L", "C">>
IspGoogleUpper == <<"G", "O", "O", "G", "L", "E", "-", "C", "L", "O", "U", "D">>
IspOther == <<"C", "o", "m", "c", "a", "s", "t">>

\* What a probe's network call does: a 2xx response with a body that
\* parses, a non-2xx response, or a rejection (network error, bad JSON).
FetchOutcomes == {"ok", "notok", "throws"}
LookupOutcomes == {"ok", "throws"}
\* ip-api.com answers 200 with status "fail" (no isp) for an address it
\* does not know.
GeoOutcomes == {"google", "other", "nodata", "notok", "throws"}

---------------------------------------------------------------------------
(* Helpers, server.js:50-94.  Each returns what the awaited promise        *)
(* settles to: a value, or (threw) a rejection the caller's catch sees.    *)

Returned(v) == [threw |-> FALSE, value |-> v, message |-> ""]
Rejected(m) == [threw |-> TRUE, value |-> Null, message |-> m]

\* server.js:50-57
resolveToIp(host, oc) ==
    IF oc = "ok" THEN Returned(ResolvedAddress) ELSE Returned(Null)

\* server.js:59-65
ipGeo(ip, oc) ==
    CASE oc = "google" -> Returned([status |-> "success", query |-> ip, isp |-> IspGoogle])
      [] oc = "other"  -> Returned([status |-> "success", query |-> ip, isp |-> IspOther])
      [] oc = "nodata" -> Returned([status |-> "fail", query |-> ip])
      [] OTHER         -> Returned(Null)

\* A mutant of rdapLookup: the try/catch is missing, a network error rejects.
rdapLookupNoCatch(target, type, oc) ==
    CASE oc = "ok"     -> Returned([objectClassName |-> IF type = "ip" THEN "ip network" ELSE "domain",
                                    handle |-> target])
      [] oc = "throws" -> Rejected("fetch failed")
      [] OTHER         -> Returned(Null)

\* server.js:67-74
rdapLookup(target, type, oc) ==
    IF oc = "ok"
    THEN Returned([objectClassName |-> IF type = "ip" THEN "ip network" ELSE "domain",
                   handle |-> target])
    ELSE Returned(Null)

\* server.js:76-82
whoisLookup(domain, oc) ==
    IF oc = "ok" THEN Returned([domainName |-> domain]) ELSE Returned(Null)

\* A mutant of shodanLookup: a failed lookup returns null.
shodanLookupNullOnFailure(ip, oc) ==
    IF ~SHODAN_KEY THEN Returned(Null)
    ELSE IF oc = "ok" THEN Returned([ip_str |-> ip]) ELSE Returned(Null)

\* server.js:84-94
shodanLookup(ip, oc) ==
    IF ~SHODAN_KEY THEN Returned(Null)
    ELSE CASE oc = "ok"    -> Returned([ip_str |-> ip])
           [] oc = "notok" -> Returned([error |-> "shodan:status"])
           [] OTHER        -> Returned([error |-> "message"])

\* server.js:157-163: fetch("https://" + target) inside its own try/catch
httpsCheck(oc) ==
    CASE oc = "ok"    -> [https |-> TRUE, status |-> 200]
      [] oc = "notok" -> [https |-> FALSE, status |-> 503]
      [] OTHER        -> [https |-> FALSE]

\* server.js:133
COMMON_PORTS == <<80, 443, 21, 22, 25, 53, 110, 143, 161, 3306, 3389, 5900,
                  8080, 8443, 587, 993, 995, 2082, 2083, 8444>>

\* Array.prototype.slice(0, n)
SliceFrom0(a, n) == SubSeq(a, 1, Min(n, Len(a)))

\* net.Socket.connect throws ERR_SOCKET_BAD_PORT outside 0..65535
ValidPort(p) == p \in 0..65535

---------------------------------------------------------------------------
(* One request's handler: its locals, what it called, what it answered.    *)
(*   pc        the await the handler is suspended at, "idle" before a      *)
(*             request, "done" after the response                          *)
(*   req       req.body (plus the route)                                   *)
(*   t, isDomain, ip, out          the handler's locals of the same name   *)
(*   ports, portsOut, sock, status scanPorts' ports and out, scanPort's    *)
(*             socket and status                                           *)
(*   event, events  the first socket event of the probe in flight, and of  *)
(*             each probe that delivered its result                        *)
(*   calls     the probes invoked so far, in order                         *)
(*   outcomes  for each settled probe of calls, whether it succeeded       *)
(*   paidAtRequest  whether session_id was in paidSessions on arrival      *)
(*   stored    the row handed to db.run, Null if none                      *)
(*   resp      the response sent, status 0 if none yet                     *)

\* Slot 1 serves one request after another; ConcSpec runs both slots at once.
Slots == {1, 2}
Serial == {1}

Idle ==
    [pc |-> "idle", req |-> [route |-> "none"], t |-> "", isDomain |-> FALSE,
     ip |-> Null, out |-> EmptyObject, ports |-> <<>>, portsOut |-> <<>>,
     sock |-> "none", status |-> "closed", event |-> "none", events |-> <<>>,
     calls |-> <<>>, outcomes |-> <<>>,
     paidAtRequest |-> FALSE, stored |-> Null, resp |-> [status |-> 0]]

Now == "when"

Invoke(h, probe) == [h EXCEPT !.calls = Append(@, probe), !.pc = probe]
Settle(h, ok) == [h EXCEPT !.outcomes = Append(@, ok)]
Respond(h, code, body) == [h EXCEPT !.resp = [status |-> code, body |-> body], !.pc = "done"]
\* the handlers' catch (e): res.status(500).json({ error: e.message })
Catch(h, res) == Respond(h, 500, [error |-> res.message])

\* out.details.<k> = v
PutDetail(h, k, v) == [h EXCEPT !.out = Put(@, "details", Put(@.details, k, v))]

---------------------------------------------------------------------------
(* POST /api/scan, server.js:141-176 *)

\* A mutant of ScanFinish: the row is written before the record is scored.
ScanFinishStoresUnscored(h) ==
    LET o == Put(h.out, "score", heuristicScore(h.out))
    IN  Respond([h EXCEPT !.out = o,
                          !.stored = [target |-> h.req.target, type |-> h.t, payload |-> h.out]],
                200, o)

\* server.js:169-171
ScanFinish(h) ==
    LET o == Put(h.out, "score", heuristicScore(h.out))
    IN  Respond([h EXCEPT !.out = o,
                          !.stored = [target |-> h.req.target, type |-> h.t, payload |-> o]],
                200, o)

\* server.js:156-164, up to the await of fetch
ScanBeforeHttps(h) ==
    IF h.t = "domain" THEN Invoke(h, "https") ELSE ScanFinish(h)

\* server.js:154-155
ScanAfterResolve(h, ip) ==
    LET h1 == [h EXCEPT !.ip = ip, !.out = Put(@, "resolved_ip", ip)]
    IN  IF ip # Null THEN Invoke(h1, "geo") ELSE ScanBeforeHttps(h1)

\* server.js:153
ScanBeforeResolve(h) ==
    IF h.t = "ip" THEN ScanAfterResolve(h, h.req.target) ELSE Invoke(h, "dns")

\* server.js:152
ScanBeforeWhois(h) ==
    IF h.t = "domain" THEN Invoke(h, "whois") ELSE ScanBeforeResolve(h)

\* server.js:145: type || (/^\d+\.\d+\.\d+\.\d+$/.test(target) ? "ip" : "domain")
ScanClassify(req) ==
    IF Has(req, "type") /\ req.type # "" THEN req.type
    ELSE IF IsIpPattern(req.target) THEN "ip" ELSE "domain"

\* server.js:142-150 (or, for another type, to the response)
ScanStart(req) ==
    LET h == [Idle EXCEPT !.req = req]
    IN  IF Falsy(req, "target")
        THEN Respond(h, 400, [error |-> "missing target"])
        ELSE LET t == ScanClassify(req)
                 h1 == [h EXCEPT !.t = t,
                                 !.out = [target |-> req.target, type |-> t,
                                          when |-> Now, checks |-> EmptyObject]]
             IN  IF t \in {"domain", "ip"}
                 THEN Invoke(h1, "rdap")
                 ELSE ScanFinish([h1 EXCEPT !.out = Put(@, "hints", [suggestion |-> req.target])])

ScanReceive(r) ==
    /\ handlers[r].pc \in {"idle", "done"}
    /\ \E req \in ScanRequests : handlers' = [handlers EXCEPT ![r] = ScanStart(req)]
    /\ UNCHANGED <<paidSessions, SHODAN_KEY, stripe, scoreIn, scoreOut, webhook>>

\* A mutant of ScanRdap: out is one object shared by the requests in
\* flight, so the result also lands in the other request's record.
ScanRdapSharedRecord(r) ==
    LET h == handlers[r]
    IN  /\ h.req.route = "scan" /\ h.pc = "rdap"
        /\ \E oc \in FetchOutcomes :
              LET res == rdapLookup(h.req.target, h.t, oc)
                  h1 == [Settle(h, res.value # Null) EXCEPT
                            !.out = Put(Put(@, "rdap", res.value),
                                        "checks", Put(@.checks, "rdap", res.value # Null))]
              IN  handlers' = [q \in Slots |->
                                  IF q = r THEN ScanBeforeWhois(h1)
                                  ELSE IF handlers[q].pc \in {"idle", "done"} THEN handlers[q]
                                  ELSE [handlers[q] EXCEPT !.out = Put(@, "rdap", res.value)]]
        /\ UNCHANGED <<paidSessions, SHODAN_KEY, stripe, scoreIn, scoreOut, webhook>>

\* server.js:150-151
ScanRdap(r) ==
    LET h == handlers[r]
    IN  /\ h.req.route = "scan" /\ h.pc = "rdap"
        /\ \E oc \in FetchOutcomes :
              LET res == rdapLookup(h.req.target, h.t, oc)
                  h1 == [Settle(h, res.value # Null) EXCEPT
                            !.out = Put(Put(@, "rdap", res.value),
                                        "checks", Put(@.checks, "rdap", res.value # Null))]
              IN  handlers' = [handlers EXCEPT ![r] =
                                  IF res.threw THEN Catch(h, res) ELSE ScanBeforeWhois(h1)]
        /\ UNCHANGED <<paidSessions, SHODAN_KEY, stripe, scoreIn, scoreOut, webhook>>

\* server.js:152
ScanWhois(r) ==
    LET h == handlers[r]
    IN  /\ h.req.route = "scan" /\ h.pc = "whois"
        /\ \E oc \in LookupOutcomes :
              LET res == whoisLookup(h.req.target, oc)
                  h1 == [Settle(h, res.value # Null) EXCEPT !.out = Put(@, "whois", res.value)]
              IN  handlers' = [handlers EXCEPT ![r] =
                                  IF res.threw THEN Catch(h, res) ELSE ScanBeforeResolve(h1)]
        /\ UNCHANGED <<paidSessions, SHODAN_KEY, stripe, scoreIn, scoreOut, webhook>>

\* server.js:153
ScanResolve(r) ==
    LET h == handlers[r]
    IN  /\ h.req.route = "scan" /\ h.pc = "dns"
        /\ \E oc \in LookupOutcomes :
              LET res == resolveToIp(h.req.target, oc)
              IN  handlers' = [handlers EXCEPT ![r] =
                                  IF res.threw THEN Catch(h, res)
                                  ELSE ScanAfterResolve(Settle(h, res.value # Null), res.value)]
        /\ UNCHANGED <<paidSessions, SHODAN_KEY, stripe, scoreIn, scoreOut, webhook>>

\* server.js:155
ScanGeo(r) ==
    LET h == handlers[r]
    IN  /\ h.req.route = "scan" /\ h.pc = "geo"
        /\ \E oc \in GeoOutcomes :
              LET res == ipGeo(h.ip, oc)
                  h1 == [Settle(h, res.value # Null) EXCEPT !.out = Put(@, "geo", res.value)]
              IN  handlers' = [handlers EXCEPT ![r] =
                                  IF res.threw THEN Catch(h, res) ELSE ScanBeforeHttps(h1)]
        /\ UNCHANGED <<paidSessions, SHODAN_KEY, stripe, scoreIn, scoreOut, webhook>>

\* server.js:157-169
ScanHttps(r) ==
    LET h == handlers[r]
    IN  /\ h.req.route = "scan" /\ h.pc = "https"
        /\ \E oc \in FetchOutcomes :
              LET res == httpsCheck(oc)
                  o1 == Put(h.out, "checks", Put(h.out.checks, "https", res.https))
                  o2 == IF Has(res, "status") THEN Put(o1, "https_status", res.status) ELSE o1
              IN  handlers' = [handlers EXCEPT ![r] =
                                  ScanFinish([Settle(h, res.https) EXCEPT !.out = o2])]
        /\ UNCHANGED <<paidSessions, SHODAN_KEY, stripe, scoreIn, scoreOut, webhook>>

---------------------------------------------------------------------------
(* scanPort and scanPorts, server.js:96-121 *)
(* sock: "connecting" after socket.connect, "destroyed" once the socket is *)
(* destroyed and its close event is due, "threw" when socket.connect threw *)
(* inside the promise executor (the promise is rejected).                  *)

\* server.js:203-205
DeepFinish(h) ==
    LET o == Put(h.out, "score", heuristicScore(h.out))
    IN  Respond([h EXCEPT !.out = o,
                          !.stored = [target |-> h.req.target, type |-> "deepscan",
                                      payload |-> o]],
                200, o)

\* A mutant of DeepAfterPorts: shodanLookup is called whether or not
\* SHODAN_KEY is set.
DeepAfterPortsAlwaysShodan(h) ==
    Invoke(PutDetail(h, "ports", h.portsOut), "shodan")

\* server.js:199-200, from the return of scanPorts to the await of shodanLookup
DeepAfterPorts(h) ==
    LET h1 == PutDetail(h, "ports", h.portsOut)
    IN  IF SHODAN_KEY THEN Invoke(h1, "shodan") ELSE DeepFinish(h1)

\* server.js:120: return out, to the deep handler or to another caller
ScanPortsReturn(h) ==
    IF h.req.route = "deepscan" THEN DeepAfterPorts(h) ELSE [h EXCEPT !.pc = "returned"]

\* A mutant of ScanPortsLoop: the loop ends at the first result that is not open.
ScanPortsLoopStopsAtFailure(h) ==
    IF /\ Len(h.portsOut) < Len(h.ports)
       /\ (h.portsOut = <<>> \/ h.portsOut[Len(h.portsOut)].status = "open")
    THEN LET p == h.ports[Len(h.portsOut) + 1]
         IN  [Invoke(h, "port") EXCEPT
                 !.sock = IF ValidPort(p) THEN "connecting" ELSE "threw",
                 !.event = IF ValidPort(p) THEN "none" ELSE "throw",
                 !.status = "closed"]
    ELSE ScanPortsReturn(h)

\* server.js:113-115 and 96-108: the next iteration, up to the await of scanPort
ScanPortsLoop(h) ==
    IF Len(h.portsOut) < Len(h.ports)
    THEN LET p == h.ports[Len(h.portsOut) + 1]
         IN  [Invoke(h, "port") EXCEPT
                 !.sock = IF ValidPort(p) THEN "connecting" ELSE "threw",
                 !.event = IF ValidPort(p) THEN "none" ELSE "throw",
                 !.status = "closed"]
    ELSE ScanPortsReturn(h)

\* server.js:111-112
scanPorts(h, host, ports) ==
    ScanPortsLoop([h EXCEPT !.ip = host, !.ports = ports, !.portsOut = <<>>,
                            !.events = <<>>])

\* out.push(...) and the next iteration
ScanPortsPush(h, status, ok) ==
    LET p == h.ports[Len(h.portsOut) + 1]
    IN  ScanPortsLoop([Settle(h, ok) EXCEPT
                          !.portsOut = Append(@, [port |-> p, status |-> status]),
                          !.events = Append(@, h.event),
                          !.event = "none",
                          !.sock = "none"])

\* A mutant of SocketConnect: the listener destroys the socket without
\* setting status.
SocketConnectKeepsStatus(r) ==
    LET h == handlers[r]
    IN  /\ h.pc = "port" /\ h.sock = "connecting"
        /\ handlers' = [handlers EXCEPT ![r] =
                            [h EXCEPT !.sock = "destroyed", !.event = "connect"]]
        /\ UNCHANGED <<paidSessions, SHODAN_KEY, stripe, scoreIn, scoreOut, webhook>>

\* server.js:101-104
SocketConnect(r) ==
    LET h == handlers[r]
    IN  /\ h.pc = "port" /\ h.sock = "connecting"
        /\ handlers' = [handlers EXCEPT ![r] =
                            [h EXCEPT !.status = "open", !.sock = "destroyed",
                                      !.event = "connect"]]
        /\ UNCHANGED <<paidSessions, SHODAN_KEY, stripe, scoreIn, scoreOut, webhook>>

\* A mutant of SocketTimeout: the listener leaves the socket as it is.
SocketTimeoutKeepsSocket(r) ==
    LET h == handlers[r]
    IN  /\ h.pc = "port" /\ h.sock = "connecting"
        /\ handlers' = [handlers EXCEPT ![r] = [h EXCEPT !.event = "timeout"]]
        /\ UNCHANGED <<paidSessions, SHODAN_KEY, stripe, scoreIn, scoreOut, webhook>>

\* server.js:105
SocketTimeout(r) ==
    LET h == handlers[r]
    IN  /\ h.pc = "port" /\ h.sock = "connecting"
        /\ handlers' = [handlers EXCEPT ![r] =
                            [h EXCEPT !.sock = "destroyed", !.event = "timeout"]]
        /\ UNCHANGED <<paidSessions, SHODAN_KEY, stripe, scoreIn, scoreOut, webhook>>

\* The errors a connecting socket emits: the peer refused, or (for a host
\* that is a name, which socket.connect looks up first) the lookup failed.
ErrorCauses(host) ==
    {"ECONNREFUSED"} \cup (IF IsIpPattern(host) THEN {} ELSE {"ENOTFOUND"})

\* server.js:106: the listener does nothing; net destroys a socket that errored
SocketError(r) ==
    LET h == handlers[r]
    IN  /\ h.pc = "port" /\ h.sock = "connecting"
        /\ \E cause \in ErrorCauses(h.ip) :
              handlers' = [handlers EXCEPT ![r] =
                              [h EXCEPT !.sock = "destroyed", !.event = cause]]
        /\ UNCHANGED <<paidSessions, SHODAN_KEY, stripe, scoreIn, scoreOut, webhook>>

\* server.js:107 and 115
SocketClose(r) ==
    LET h == handlers[r]
    IN  /\ h.pc = "port" /\ h.sock = "destroyed"
        /\ handlers' = [handlers EXCEPT ![r] = ScanPortsPush(h, h.status, h.status = "open")]
        /\ UNCHANGED <<paidSessions, SHODAN_KEY, stripe, scoreIn, scoreOut, webhook>>

\* server.js:116-118
ScanPortRejected(r) ==
    LET h == handlers[r]
    IN  /\ h.pc = "port" /\ h.sock = "threw"
        /\ handlers' = [handlers EXCEPT ![r] = ScanPortsPush(h, "error", FALSE)]
        /\ UNCHANGED <<paidSessions, SHODAN_KEY, stripe, scoreIn, scoreOut, webhook>>

---------------------------------------------------------------------------
(* POST /api/deepscan, server.js:179-210 *)

\* A mutant of DeepAfterResolve: the if (ip) guard is missing.
DeepAfterResolveUnguarded(h, ip) ==
    Invoke([h EXCEPT !.ip = ip, !.out = Put(@, "resolved_ip", ip)], "geo")

\* server.js:196-199, up to the await of ipGeo
DeepAfterResolve(h, ip) ==
    LET h1 == [h EXCEPT !.ip = ip, !.out = Put(@, "resolved_ip", ip)]
    IN  IF ip # Null THEN Invoke(h1, "geo") ELSE DeepFinish(h1)

\* A mutant of DeepBeforeResolve: a target that is no domain gets no address.
DeepBeforeResolveDomainOnly(h) ==
    IF h.isDomain THEN Invoke(h, "dns") ELSE DeepAfterResolve(h, Null)

\* server.js:195
DeepBeforeResolve(h) ==
    IF h.isDomain THEN Invoke(h, "dns")
    ELSE DeepAfterResolve(h, IF IsIpPattern(h.req.target) THEN h.req.target ELSE Null)

\* A mutant of DeepMissingInput: only the target is required.
DeepMissingTargetOnly(req) == Falsy(req, "target")

\* server.js:181: !target || !session_id
DeepMissingInput(req) ==
    Falsy(req, "target") \/ ~Has(req, "session_id") \/ req.session_id = ""

\* A mutant of DeepPaid: the payment check is skipped.
DeepPaidUnchecked(req) == TRUE

\* server.js:184: paidSessions.has(session_id)
DeepPaid(req) == Has(req, "session_id") /\ req.session_id \in paidSessions

\* server.js:180-193
DeepStart(req) ==
    LET h == [Idle EXCEPT !.req = req,
                          !.paidAtRequest = Has(req, "session_id")
                                               /\ req.session_id \in paidSessions]
    IN  IF DeepMissingInput(req)
        THEN Respond(h, 400, [error |-> "missing target or session_id"])
        ELSE IF ~DeepPaid(req)
        THEN Respond(h, 403, [error |-> "Pro access required (no valid payment session)"])
        ELSE LET isDomain == IsDomainPattern(req.target)
                 h1 == [h EXCEPT !.isDomain = isDomain,
                                 !.out = [target |-> req.target, when |-> Now,
                                          details |-> EmptyObject]]
             IN  IF isDomain THEN Invoke(h1, "whois") ELSE Invoke(h1, "rdap")

DeepReceive(r) ==
    /\ handlers[r].pc \in {"idle", "done"}
    /\ \E req \in DeepRequests : handlers' = [handlers EXCEPT ![r] = DeepStart(req)]
    /\ UNCHANGED <<paidSessions, SHODAN_KEY, stripe, scoreIn, scoreOut, webhook>>

\* server.js:192
DeepWhois(r) ==
    LET h == handlers[r]
    IN  /\ h.req.route = "deepscan" /\ h.pc = "whois"
        /\ \E oc \in LookupOutcomes :
              LET res == whoisLookup(h.req.target, oc)
                  h1 == PutDetail(Settle(h, res.value # Null), "whois", res.value)
              IN  handlers' = [handlers EXCEPT ![r] =
                                  IF res.threw THEN Catch(h, res) ELSE Invoke(h1, "rdap")]
        /\ UNCHANGED <<paidSessions, SHODAN_KEY, stripe, scoreIn, scoreOut, webhook>>

\* server.js:193-195
DeepRdap(r) ==
    LET h == handlers[r]
    IN  /\ h.req.route = "deepscan" /\ h.pc = "rdap"
        /\ \E oc \in FetchOutcomes :
              LET res == rdapLookup(h.req.target, IF h.isDomain THEN "domain" ELSE "ip", oc)
                  h1 == PutDetail(Settle(h, res.value # Null), "rdap", res.value)
              IN  handlers' = [handlers EXCEPT ![r] =
                                  IF res.threw THEN Catch(h, res) ELSE DeepBeforeResolve(h1)]
        /\ UNCHANGED <<paidSessions, SHODAN_KEY, stripe, scoreIn, scoreOut, webhook>>

\* server.js:195
DeepResolve(r) ==
    LET h == handlers[r]
    IN  /\ h.req.route = "deepscan" /\ h.pc = "dns"
        /\ \E oc \in LookupOutcomes :
              LET res == resolveToIp(h.req.target, oc)
              IN  handlers' = [handlers EXCEPT ![r] =
                                  IF res.threw THEN Catch(h, res)
                                  ELSE DeepAfterResolve(Settle(h, res.value # Null), res.value)]
        /\ UNCHANGED <<paidSessions, SHODAN_KEY, stripe, scoreIn, scoreOut, webhook>>

\* server.js:198-199
DeepGeo(r) ==
    LET h == handlers[r]
    IN  /\ h.req.route = "deepscan" /\ h.pc = "geo"
        /\ \E oc \in GeoOutcomes :
              LET res == ipGeo(h.ip, oc)
                  h1 == PutDetail(Settle(h, res.value # Null), "geo", res.value)
              IN  handlers' = [handlers EXCEPT ![r] =
                                  IF res.threw THEN Catch(h, res)
                                  ELSE scanPorts(h1, h.ip, SliceFrom0(COMMON_PORTS, ScanCount))]
        /\ UNCHANGED <<paidSessions, SHODAN_KEY, stripe, scoreIn, scoreOut, webhook>>

\* server.js:200-203
DeepShodan(r) ==
    LET h == handlers[r]
    IN  /\ h.req.route = "deepscan" /\ h.pc = "shodan"
        /\ \E oc \in FetchOutcomes :
              LET res == shodanLookup(h.ip, oc)
                  h1 == PutDetail(Settle(h, oc = "ok"), "shodan", res.value)
              IN  handlers' = [handlers EXCEPT ![r] =
                                  IF res.threw THEN Catch(h, res) ELSE DeepFinish(h1)]
        /\ UNCHANGED <<paidSessions, SHODAN_KEY, stripe, scoreIn, scoreOut, webhook>>

---------------------------------------------------------------------------
(* POST /api/stripe-webhook, server.js:243-260 *)

EventTypes == {"checkout.session.completed", "payment_intent.succeeded"}

\* A delivery: whether its stripe-signature verifies against the secret, and
\* the event in its body.
Deliveries == [sigValid : BOOLEAN, type : EventTypes, id : SessionIds]

\* webhook: the last delivery and the status it was answered with, and the
\* ids of the checkout.session.completed events that verified and were
\* answered 200.
NoWebhook ==
    [last |-> [sigValid |-> FALSE, type |-> "none", id |-> ""], status |-> 0,
     completed |-> {}]

\* server.js:247: constructEvent throws on a signature that does not verify,
\* and stripe.webhooks throws when stripe is null
constructEvent(d) ==
    IF stripe /\ d.sigValid THEN Returned([type |-> d.type, id |-> d.id])
    ELSE Rejected("signature")

\* A mutant of IsCompletedCheckout: the event's type is not looked at.
IsAnyEvent(event) == TRUE

\* server.js:253
IsCompletedCheckout(event) == event.type = "checkout.session.completed"

\* server.js:243-260
StripeWebhook ==
    /\ \E d \in Deliveries :
          LET res == constructEvent(d)
          IN  /\ paidSessions' = IF ~res.threw /\ IsCompletedCheckout(res.value)
                                 THEN paidSessions \cup {res.value.id}
                                 ELSE paidSessions
              /\ webhook' = [last |-> d,
                             status |-> IF res.threw THEN 400 ELSE 200,
                             completed |->
                                 IF /\ ~res.threw /\ d.sigValid
                                    /\ d.type = "checkout.session.completed"
                                 THEN webhook.completed \cup {d.id}
                                 ELSE webhook.completed]
    /\ UNCHANGED <<SHODAN_KEY, stripe, handlers, scoreIn, scoreOut>>

---------------------------------------------------------------------------
(* The server: one request in flight at a time, webhooks at any time *)

NoScore == [target |-> <<>>]

Init ==
    /\ paidSessions = {}
    /\ SHODAN_KEY \in BOOLEAN
    /\ stripe \in BOOLEAN
    /\ handlers = [r \in Slots |-> Idle]
    /\ scoreIn = NoScore
    /\ scoreOut = -1
    /\ webhook = NoWebhook

Next ==
    \/ StripeWebhook
    \/ \E r \in Serial :
          \/ ScanReceive(r)
          \/ ScanRdap(r)
          \/ ScanWhois(r)
          \/ ScanResolve(r)
          \/ ScanGeo(r)
          \/ ScanHttps(r)
          \/ DeepReceive(r)
          \/ DeepWhois(r)
          \/ DeepRdap(r)
          \/ DeepResolve(r)
          \/ DeepGeo(r)
          \/ SocketConnect(r)
          \/ SocketTimeout(r)
          \/ SocketError(r)
          \/ SocketClose(r)
          \/ DeepShodan(r)

Spec == Init /\ [][Next]_vars

---------------------------------------------------------------------------
(* heuristicScore on its own: every shape of argument, one call *)

IspNearMiss == <<"G", "o", "o", "g", "l">>

CheckFlagValues ==
    WithOptional(WithOptional({EmptyObject}, "https", BOOLEAN), "rdap", BOOLEAN)

GeoValues ==
    {Null, [status |-> "fail"], [status |-> "success", isp |-> <<>>]}
      \cup {[status |-> "success", isp |-> i] :
               i \in {IspGoogle, IspGoogleUpper, IspOther, IspNearMiss}}

ScoreInputs ==
    WithOptional(WithOptional({[target |-> IpTarget]}, "checks", CheckFlagValues),
                 "geo", GeoValues)

ScoreInit ==
    /\ paidSessions = {}
    /\ SHODAN_KEY = FALSE
    /\ stripe = FALSE
    /\ handlers = [r \in Slots |-> Idle]
    /\ scoreIn \in ScoreInputs
    /\ scoreOut = -1
    /\ webhook = NoWebhook

ScoreCall ==
    /\ scoreOut = -1
    /\ scoreOut' = heuristicScore(scoreIn)
    /\ UNCHANGED <<paidSessions, SHODAN_KEY, stripe, handlers, scoreIn, webhook>>

ScoreNext == ScoreCall

ScoreSpec == ScoreInit /\ [][ScoreNext]_vars

---------------------------------------------------------------------------
(* scanPorts on its own: every port list up to MaxPorts, 70000 being a     *)
(* port socket.connect refuses by throwing                                 *)

PortChoices == {80, 443, 70000}

\* scanPorts' host: an address, or a name the socket has to look up
Hosts == {IpTarget, DomainTarget}

PortLists == UNION {[1..n -> PortChoices] : n \in 0..MaxPorts}

ScanPortsInit ==
    /\ paidSessions = {}
    /\ SHODAN_KEY = FALSE
    /\ stripe = FALSE
    /\ \E host \in Hosts, ports \in PortLists :
          handlers = [r \in Slots |->
                         IF r \in Serial
                         THEN scanPorts([Idle EXCEPT !.req = [route |-> "scanPorts"]],
                                        host, ports)
                         ELSE Idle]
    /\ scoreIn = NoScore
    /\ scoreOut = -1
    /\ webhook = NoWebhook

ScanPortsNext ==
    \E r \in Slots :
        \/ SocketConnect(r)
        \/ SocketTimeout(r)
        \/ SocketError(r)
        \/ SocketClose(r)
        \/ ScanPortRejected(r)

ScanPortsSpec == ScanPortsInit /\ [][ScanPortsNext]_vars

\* net emits close for every socket that was destroyed, and the event loop
\* runs the listener of server.js:107.
ScanPortsFairness == WF_vars(\E r \in Slots : SocketClose(r))

ScanPortsFairSpec == ScanPortsInit /\ [][ScanPortsNext]_vars /\ ScanPortsFairness

---------------------------------------------------------------------------
(* Two requests in flight at once: slot 1 is sent an address, slot 2 a     *)
(* name, each on either route, with cs_1 paid; the handlers interleave at  *)
(* their awaits.                                                           *)

ConcRequests(r) ==
    LET target == IF r = 1 THEN IpTarget ELSE DomainTarget
    IN  {[route |-> "scan", target |-> target],
         [route |-> "deepscan", target |-> target, session_id |-> "cs_1"]}

ConcInit ==
    /\ paidSessions = {"cs_1"}
    /\ SHODAN_KEY = TRUE
    /\ stripe = TRUE
    /\ handlers = [r \in Slots |-> Idle]
    /\ scoreIn = NoScore
    /\ scoreOut = -1
    /\ webhook = [last |-> [sigValid |-> TRUE, type |-> "checkout.session.completed",
                            id |-> "cs_1"],
                  status |-> 200, completed |-> {"cs_1"}]

\* server.js:141 and 179: express starts a handler for each request
ConcReceive(r) ==
    /\ handlers[r].pc = "idle"
    /\ \E req \in ConcRequests(r) :
          handlers' = [handlers EXCEPT ![r] =
                          IF req.route = "scan" THEN ScanStart(req) ELSE DeepStart(req)]
    /\ UNCHANGED <<paidSessions, SHODAN_KEY, stripe, scoreIn, scoreOut, webhook>>

ConcNext ==
    \E r \in Slots :
        \/ ConcReceive(r)
        \/ ScanRdap(r)
        \/ ScanWhois(r)
        \/ ScanResolve(r)
        \/ ScanGeo(r)
        \/ ScanHttps(r)
        \/ DeepWhois(r)
        \/ DeepRdap(r)
        \/ DeepResolve(r)
        \/ DeepGeo(r)
        \/ SocketConnect(r)
        \/ SocketTimeout(r)
        \/ SocketError(r)
        \/ SocketClose(r)
        \/ DeepShodan(r)

ConcSpec == ConcInit /\ [][ConcNext]_vars

---------------------------------------------------------------------------
(* What the claims speak of *)

IsScan(h) == h.req.route = "scan"
IsDeep(h) == h.req.route = "deepscan"
Done(h) == h.pc = "done"
HasTarget(h) == Has(h.req, "target") /\ h.req.target # <<>>
HasToken(h) == Has(h.req, "session_id") /\ h.req.session_id # ""
Invoked(h, probe) == \E i \in DOMAIN h.calls : h.calls[i] = probe
Times(h, probe) == Cardinality({i \in DOMAIN h.calls : h.calls[i] = probe})
\* the probe was invoked and its settled outcome is a failure
Failed(h, probe) ==
    \E i \in DOMAIN h.outcomes : h.calls[i] = probe /\ ~h.outcomes[i]
\* the field of the record, at the top level or under details
Field(o, k) ==
    IF Has(o, k) THEN o[k]
    ELSE IF Has(o, "details") /\ Has(o.details, k) THEN o.details[k]
    ELSE Null
Carries(o, k) == Has(o, k) \/ (Has(o, "details") /\ Has(o.details, k))
\* the request ran to a ScanRecord
Scored(h) == Done(h) /\ h.resp.status = 200 /\ Has(h.resp.body, "score")

---------------------------------------------------------------------------
\* C1: a deep-profile request whose session_id is absent, or was not in
\* paidSessions when the request arrived, never invokes a probe.
C1_NoProbeWithoutPayment ==
    \A r \in Slots :
        LET h == handlers[r]
        IN  (IsDeep(h) /\ ~h.paidAtRequest)
                => /\ h.calls = <<>>
                   /\ h.pc = "done"
                   /\ h.resp.status \in {400, 403}

C1_Witness ==
    \E r \in Slots :
        LET h == handlers[r]
        IN  /\ IsDeep(h) /\ Done(h) /\ HasTarget(h) /\ HasToken(h)
            /\ ~h.paidAtRequest
            /\ paidSessions # {}
            /\ h.resp.status = 403
            /\ h.calls = <<>>

ShownAsAbsent(h, i) ==
    LET o == h.resp.body
        probe == h.calls[i]
    IN  CASE probe = "rdap"  -> /\ Field(o, "rdap") = Null
                                /\ (Has(o, "checks") => o.checks.rdap = FALSE)
          [] probe = "whois" -> Field(o, "whois") = Null
          [] probe = "dns"   -> o.resolved_ip = Null
          [] probe = "geo"   -> Field(o, "geo") = Null
          [] probe = "https" -> o.checks.https = FALSE
          [] probe = "port"  ->
                LET n == Cardinality({j \in 1..i : h.calls[j] = "port"})
                IN  o.details.ports[n].status # "open"
          [] OTHER           -> FALSE

\* C3 as stated: with a non-empty target (and, for deep, a paid token) the
\* request ends with a scored record whatever each probe does, and every
\* failed probe, threat enrichment included, shows only as a null or absent
\* field or a false flag.
C3_Original ==
    \A r \in Slots :
        LET h == handlers[r]
        IN  (Done(h) /\ HasTarget(h) /\ (IsDeep(h) => h.paidAtRequest))
                => /\ Scored(h)
                   /\ \A i \in DOMAIN h.outcomes :
                         ~h.outcomes[i]
                             => IF h.calls[i] = "shodan"
                                THEN ~Carries(h.resp.body, "shodan")
                                         \/ Field(h.resp.body, "shodan") = Null
                                ELSE ShownAsAbsent(h, i)

\* C3 amended: with a non-empty target (and, for deep, a paid token) the
\* request ends with a scored record whatever each probe does, never with
\* an error response; a failed probe shows only as a null or absent field
\* or a false flag, except threat enrichment, whose failure shows as a
\* record carrying an error description.
C3_Amended ==
    \A r \in Slots :
        LET h == handlers[r]
        IN  (Done(h) /\ HasTarget(h) /\ (IsDeep(h) => h.paidAtRequest))
                => /\ Scored(h)
                   /\ Len(h.outcomes) = Len(h.calls)
                   /\ \A i \in DOMAIN h.outcomes :
                         ~h.outcomes[i]
                             => IF h.calls[i] = "shodan"
                                THEN Has(Field(h.resp.body, "shodan"), "error")
                                ELSE ShownAsAbsent(h, i)

C3_Witness ==
    \E r \in Slots :
        LET h == handlers[r]
        IN  /\ IsDeep(h) /\ Scored(h)
            /\ Invoked(h, "shodan") /\ Invoked(h, "port") /\ Invoked(h, "dns")
            /\ Len(h.outcomes) = Len(h.calls)
            /\ \A i \in DOMAIN h.outcomes : h.calls[i] # "dns" => ~h.outcomes[i]

\* C4: scanPorts returns one result per port of its list, in the order of
\* the list, each carrying its port, whatever each probe did; a probe that
\* throws is recorded and the ports after it are still probed.
C4_OneResultPerPort ==
    \A r \in Slots :
        LET h == handlers[r]
        IN  /\ Len(h.portsOut) <= Len(h.ports)
            /\ \A i \in DOMAIN h.portsOut : h.portsOut[i].port = h.ports[i]
            /\ h.pc = "returned"
                   => /\ Len(h.portsOut) = Len(h.ports)
                      /\ Times(h, "port") = Len(h.ports)

C4_Witness ==
    \E r \in Slots :
        LET h == handlers[r]
        IN  /\ h.pc = "returned"
            /\ Len(h.ports) = 3
            /\ h.portsOut[1].status = "error"
            /\ h.portsOut[2].status = "closed"
            /\ h.portsOut[3].status = "open"

\* The score the specification's formula gives a returned record: 50, +15
\* for an HTTPS check that was attempted and failed, +10 for a registry
\* lookup that was attempted and failed, -8 when the geolocation record's
\* operator name contains the token, clamped to [0, 100].
FormulaScore(h) ==
    LET geo == Field(h.resp.body, "geo")
        operatorMatch == Has(geo, "isp") /\ MatchesGoogle(geo.isp)
    IN  Max(0, Min(100, 50 + (IF Failed(h, "https") THEN 15 ELSE 0)
                           + (IF Failed(h, "rdap") THEN 10 ELSE 0)
                           - (IF operatorMatch THEN 8 ELSE 0)))

\* C5: in every returned record, of the basic and of the deep profile, score
\* is 50, +15 for a failed HTTPS check, +10 for a failed registry lookup, -8
\* for an operator name containing the cloud-provider token, clamped to
\* [0, 100].
C5_ScoreFormula ==
    \A r \in Slots :
        LET h == handlers[r]
        IN  Scored(h) => h.resp.body.score = FormulaScore(h)

\* C6: whatever its argument (checks present or absent, any flags, geo
\* present, null or absent), heuristicScore returns an integer in [0, 100],
\* and exactly 50 when no attempted check failed and the operator name does
\* not contain the token.
C6_ScoreBounded ==
    LET noCheckFailed ==
            Has(scoreIn, "checks") => \A k \in DOMAIN scoreIn.checks : scoreIn.checks[k]
        operatorMatch ==
            /\ Has(scoreIn, "geo")
            /\ Has(scoreIn.geo, "isp")
            /\ scoreIn.geo.isp \in {IspGoogle, IspGoogleUpper}
    IN  scoreOut # -1
            => /\ scoreOut \in 0..100
               /\ (noCheckFailed /\ ~operatorMatch) => scoreOut = 50

C6_Witness ==
    /\ scoreOut = 50
    /\ Has(scoreIn, "checks") /\ DOMAIN scoreIn.checks = {"https"} /\ scoreIn.checks.https
    /\ Has(scoreIn, "geo") /\ Has(scoreIn.geo, "isp") /\ scoreIn.geo.isp = IspNearMiss

\* The kind the classification rule gives a target: IP for the dotted-quad
\* pattern, Domain for the domain-like pattern, Unclassified otherwise.
PatternKind(target) ==
    IF IsIpPattern(target) THEN "ip"
    ELSE IF IsDomainPattern(target) THEN "domain"
    ELSE "unclassified"

ExplicitKind(h) == IsScan(h) /\ Has(h.req, "type") /\ h.req.type # ""

\* The kind a finished handler treated its target as: the basic handler's
\* t, the deep handler's isDomain and ip.
HandledKind(h) ==
    IF IsScan(h) THEN (IF h.t \in {"ip", "domain"} THEN h.t ELSE "unclassified")
    ELSE IF h.isDomain THEN "domain"
    ELSE IF h.ip # Null THEN "ip"
    ELSE "unclassified"

\* C7: with no explicit kind, a target of the dotted-quad pattern is handled
\* as IP, one of the domain-like pattern as Domain, any other target as
\* Unclassified.
C7_Classification ==
    \A r \in Slots :
        LET h == handlers[r]
        IN  (Scored(h) /\ ~ExplicitKind(h)) => HandledKind(h) = PatternKind(h.req.target)

\* C8: a request, of either profile, whose kind is Unclassified (an explicit
\* kind that is neither ip nor domain, or no explicit kind and a target of
\* neither pattern) invokes no probe, and its record carries the advisory
\* hint and the score 50.
C8_UnclassifiedSkipsProbes ==
    \A r \in Slots :
        LET h == handlers[r]
            kind == IF ExplicitKind(h)
                    THEN (IF h.req.type \in {"ip", "domain"} THEN h.req.type
                          ELSE "unclassified")
                    ELSE PatternKind(h.req.target)
        IN  (Scored(h) /\ kind = "unclassified")
                => /\ h.calls = <<>>
                   /\ Has(h.resp.body, "hints")
                   /\ h.resp.body.score = 50

\* C9: a request of either profile whose target is missing or empty is
\* answered 400 at once: no probe is invoked and no row is handed to the
\* store.
C9_MissingTargetRejected ==
    \A r \in Slots :
        LET h == handlers[r]
        IN  ((IsScan(h) \/ IsDeep(h)) /\ ~HasTarget(h))
                => /\ Done(h)
                   /\ h.resp.status = 400
                   /\ h.calls = <<>>
                   /\ h.stored = Null

C9_Witness ==
    \E r \in Slots :
        LET h == handlers[r]
        IN  /\ IsScan(h) /\ Done(h)
            /\ Has(h.req, "target") /\ h.req.target = <<>>
            /\ Has(h.req, "type") /\ h.req.type = "domain"
            /\ h.resp.status = 400 /\ h.calls = <<>> /\ h.stored = Null

\* C10: a basic-profile run never invokes a port probe and its record has
\* no ports field; a paid deep-profile run on a target of the IP pattern
\* probes every port of the scanned prefix and returns a ports field,
\* whatever the registry and geolocation probes did.
C10_PortsOnlyInDeep ==
    \A r \in Slots :
        LET h == handlers[r]
        IN  /\ IsScan(h)
                => /\ ~Invoked(h, "port")
                   /\ ~Carries(h.out, "ports")
                   /\ (Done(h) => ~Carries(h.resp.body, "ports"))
            /\ (IsDeep(h) /\ Done(h) /\ h.paidAtRequest /\ HasTarget(h)
                  /\ IsIpPattern(h.req.target))
                => /\ Scored(h)
                   /\ Times(h, "port") = Len(h.ports)
                   /\ Len(h.ports) >= 1
                   /\ Has(h.resp.body.details, "ports")
                   /\ Len(h.resp.body.details.ports) = Len(h.ports)

C10_Witness ==
    \E r \in Slots :
        LET h == handlers[r]
        IN  /\ IsDeep(h) /\ Scored(h) /\ IsIpPattern(h.req.target)
            /\ Failed(h, "rdap") /\ Failed(h, "geo")
            /\ Has(h.resp.body.details, "ports")
            /\ Times(h, "port") = Len(h.ports)

---------------------------------------------------------------------------
\* C11: a port probe reports open if and only if its socket connected before
\* the timeout; a refused connection and an elapsed timeout both report
\* closed.
C11_OpenIffConnected ==
    \A r \in Slots :
        LET h == handlers[r]
        IN  /\ Len(h.events) = Len(h.portsOut)
            /\ \A i \in DOMAIN h.portsOut :
                  /\ (h.portsOut[i].status = "open") <=> (h.events[i] = "connect")
                  /\ h.events[i] \in {"timeout", "ECONNREFUSED"}
                        => h.portsOut[i].status = "closed"

C11_Witness ==
    \E r \in Slots :
        LET h == handlers[r]
        IN  /\ h.pc = "returned"
            /\ h.events = <<"connect", "timeout", "ECONNREFUSED">>
            /\ h.portsOut[1].status = "open"
            /\ h.portsOut[2].status = "closed"
            /\ h.portsOut[3].status = "closed"

\* C12: a port probe reports error exactly for a local failure, the failure
\* to resolve the host included (here also a connect call that throws); a
\* refusal or a timeout never reports error.
C12_ErrorForLocalFailure ==
    \A r \in Slots :
        LET h == handlers[r]
        IN  \A i \in DOMAIN h.portsOut :
                (h.portsOut[i].status = "error") <=> (h.events[i] \in {"ENOTFOUND", "throw"})

\* C13: without SHODAN_KEY no request invokes shodanLookup and no returned
\* record has a shodan field; with SHODAN_KEY, a paid deep request that
\* returns a record with an address has invoked shodanLookup exactly once.
C13_ShodanOnlyWithKey ==
    \A r \in Slots :
        LET h == handlers[r]
        IN  /\ ~SHODAN_KEY
                => /\ ~Invoked(h, "shodan")
                   /\ Scored(h) => ~Carries(h.resp.body, "shodan")
            /\ (SHODAN_KEY /\ IsDeep(h) /\ Scored(h) /\ h.resp.body.resolved_ip # Null)
                => Times(h, "shodan") = 1
            /\ ~IsDeep(h) => ~Invoked(h, "shodan")

C13_Witness ==
    \E r \in Slots :
        LET h == handlers[r]
        IN  /\ SHODAN_KEY /\ IsDeep(h) /\ Scored(h)
            /\ h.resp.body.resolved_ip # Null
            /\ Times(h, "shodan") = 1
            /\ Carries(h.resp.body, "shodan")

\* C14: with SHODAN_KEY set, a shodanLookup that failed leaves
\* details.shodan a record with an error; the shodan field is null or
\* absent only when SHODAN_KEY is unset or shodanLookup was not invoked.
C14_ShodanFailureIsRecorded ==
    \A r \in Slots :
        LET h == handlers[r]
            o == h.resp.body
        IN  Scored(h)
                => /\ (SHODAN_KEY /\ Failed(h, "shodan"))
                        => /\ Carries(o, "shodan")
                           /\ Field(o, "shodan") # Null
                           /\ Has(Field(o, "shodan"), "error")
                   /\ (~Carries(o, "shodan") \/ Field(o, "shodan") = Null)
                        => (~SHODAN_KEY \/ ~Invoked(h, "shodan"))

C14_Witness ==
    \E r \in Slots :
        LET h == handlers[r]
        IN  /\ SHODAN_KEY /\ Scored(h) /\ Failed(h, "shodan")
            /\ Has(h.resp.body.details.shodan, "error")

\* the settled outcome of the probe, which the request invoked
Outcome(h, probe) == h.outcomes[CHOOSE i \in DOMAIN h.calls : h.calls[i] = probe]

\* C15: in every returned record of either route, checks has the key rdap
\* (https) if and only if that probe was invoked by the request, and its
\* value is the probe's outcome.
C15_ChecksMatchAttempts ==
    \A r \in Slots :
        LET h == handlers[r]
            o == h.resp.body
        IN  Scored(h)
                => /\ Has(o, "checks")
                   /\ \A k \in {"rdap", "https"} :
                         /\ Has(o.checks, k) <=> Invoked(h, k)
                         /\ Has(o.checks, k) => o.checks[k] = Outcome(h, k)

\* C16: in every request the score is set before the record is handed to
\* db.run and to res.json, nothing runs for the request after that, and the
\* row's payload and the response body are the same scored record.
C16_ScoredThenStoredAndSent ==
    \A r \in Slots :
        LET h == handlers[r]
        IN  /\ Has(h.out, "score")
                => /\ Done(h)
                   /\ h.resp = [status |-> 200, body |-> h.out]
                   /\ h.stored # Null
                   /\ h.stored.payload = h.out
            /\ h.stored # Null => Has(h.out, "score")
            /\ (Done(h) /\ h.resp.status = 200) => Has(h.out, "score")

C16_Witness ==
    \E r1 \in Slots :
        LET h == handlers[r1]
        IN  /\ Scored(h) /\ Invoked(h, "geo")
            /\ h.stored # Null
            /\ h.stored.payload = h.resp.body
            /\ Has(h.stored.payload, "score")

\* the request's target is taken as the address, without a DNS lookup
AddressIsTarget(h) ==
    IF IsScan(h) THEN h.t = "ip" ELSE ~h.isDomain /\ IsIpPattern(h.req.target)

\* C18: in either route ipGeo, scanPorts' probes and shodanLookup are invoked
\* only once the handler holds an address: the target of an IP request, or
\* the result of an earlier successful resolveToIp.  When resolveToIp fails,
\* resolved_ip is null and none of the three is invoked, while rdapLookup and
\* whoisLookup have run.
C18_AddressBeforeAddressProbes ==
    \A r \in Slots :
        LET h == handlers[r]
        IN  /\ \A i \in DOMAIN h.calls :
                  h.calls[i] \in {"geo", "port", "shodan"}
                      => /\ h.ip # Null
                         /\ \/ AddressIsTarget(h) /\ h.ip = h.req.target
                            \/ \E j \in 1..(i - 1) :
                                  /\ h.calls[j] = "dns" /\ h.outcomes[j]
                                  /\ h.ip = ResolvedAddress
            /\ Failed(h, "dns")
                  => /\ Has(h.out, "resolved_ip") /\ h.out.resolved_ip = Null
                     /\ ~Invoked(h, "geo") /\ ~Invoked(h, "port") /\ ~Invoked(h, "shodan")
                     /\ Invoked(h, "rdap") /\ Invoked(h, "whois")

C18_Witness ==
    \E r \in Slots :
        LET h == handlers[r]
        IN  /\ IsDeep(h) /\ Scored(h) /\ Failed(h, "dns")
            /\ h.resp.body.resolved_ip = Null
            /\ Invoked(h, "rdap") /\ ~Invoked(h, "geo")

\* C20: a session id is in paidSessions if and only if a
\* checkout.session.completed event carrying it verified and was processed
\* before; a delivery that does not verify, or of another type, leaves
\* paidSessions as it was; no step removes an id, so a request whose
\* session_id is in paidSessions is never answered 403, however many came
\* before it.
C20_PaidIffCompletedCheckout ==
    /\ [](/\ paidSessions = webhook.completed
          /\ \A r \in Slots :
                LET h == handlers[r]
                IN  (IsDeep(h) /\ h.paidAtRequest) => h.resp.status # 403)
    /\ [][/\ paidSessions \subseteq paidSessions'
          /\ paidSessions' # paidSessions
                => /\ webhook'.status = 200
                   /\ webhook'.last.sigValid
                   /\ webhook'.last.type = "checkout.session.completed"
                   /\ paidSessions' = paidSessions \cup {webhook'.last.id}]_vars

C20_Witness ==
    \E r \in Slots :
        LET h == handlers[r]
        IN  /\ paidSessions = {"cs_1"}
            /\ webhook.last.id = "cs_2" /\ webhook.status \in {200, 400}
            /\ IsDeep(h) /\ Scored(h) /\ h.req.session_id = "cs_1"

\* C17: every probe delivers exactly one result.  Each invocation of scanPort
\* adds one entry to scanPorts' out, once, and never touches an earlier one;
\* after the first connect, timeout or error event of a probe its result is
\* eventually delivered; and a status that connect set to open stays open
\* until close delivers it.
C17_OneResultPerProbe ==
    /\ [](\A r \in Slots :
             LET h == handlers[r]
             IN  /\ Times(h, "port") = Len(h.portsOut) + (IF h.pc = "port" THEN 1 ELSE 0)
                 /\ Len(h.events) = Len(h.portsOut))
    /\ [][\A r \in Slots :
             LET h == handlers[r]
                 g == handlers'[r]
             IN  /\ \/ g.portsOut = h.portsOut
                    \/ /\ Len(g.portsOut) = Len(h.portsOut) + 1
                       /\ SubSeq(g.portsOut, 1, Len(h.portsOut)) = h.portsOut
                       /\ h.pc = "port" /\ h.sock \in {"destroyed", "threw"}
                 /\ (h.pc = "port" /\ h.status = "open")
                       => \/ g.pc = "port" /\ g.status = "open" /\ g.portsOut = h.portsOut
                          \/ /\ Len(g.portsOut) = Len(h.portsOut) + 1
                             /\ g.portsOut[Len(g.portsOut)].status = "open"]_vars
    /\ \A r \in Slots, n \in 0..(MaxPorts + 1) :
          (/\ handlers[r].pc = "port"
           /\ handlers[r].event \in {"connect", "timeout", "ECONNREFUSED", "ENOTFOUND"}
           /\ Len(handlers[r].portsOut) = n)
              ~> (Len(handlers[r].portsOut) = n + 1)

C17_Witness ==
    \E r \in Slots :
        LET h == handlers[r]
        IN  /\ h.pc = "returned"
            /\ Times(h, "port") = 3
            /\ h.events = <<"timeout", "connect", "ENOTFOUND">>
            /\ h.portsOut[2].status = "open"

\* the record holds the request's own target and only results of probes
\* issued for that target (or for the address the handler obtained for it)
OwnRecord(h, o) ==
    /\ o.target = h.req.target
    /\ o.resolved_ip = h.ip
    /\ h.ip \in {Null, h.req.target, ResolvedAddress}
    /\ \A k \in {"rdap", "whois", "geo", "shodan", "ports"} :
          (Carries(o, k) /\ Field(o, k) # Null)
              => CASE k = "rdap"   -> Field(o, k).handle = h.req.target
                   [] k = "whois"  -> Field(o, k).domainName = h.req.target
                   [] k = "geo"    -> Field(o, k).query = h.ip
                   [] k = "shodan" -> (Has(Field(o, k), "ip_str") => Field(o, k).ip_str = h.ip)
                   [] k = "ports"  -> Field(o, k) = h.portsOut

\* C19: however two requests interleave at their awaits, each returned
\* record holds its own request's target and results, and a step of one
\* request changes nothing of the other.
C19_RequestsIsolated ==
    /\ [](\A r \in Slots : Scored(handlers[r]) => OwnRecord(handlers[r], handlers[r].resp.body))
    /\ [][\A r \in Slots :
             handlers'[r] # handlers[r]
                 => \A q \in Slots \ {r} : handlers'[q] = handlers[q]]_vars

C19_Witness ==
    /\ Scored(handlers[1]) /\ IsDeep(handlers[1])
    /\ Field(handlers[1].resp.body, "rdap") # Null
    /\ IsScan(handlers[2]) /\ handlers[2].pc = "https"
    /\ handlers[2].out.rdap # Null
    /\ handlers[2].out.target # handlers[1].resp.body.target

=============================================================================
